---- MODULE Spec2Model ----
(***************************************************************************)
(* pktfmt: RFC-style packet diagrams.                                      *)
(*                                                                         *)
(* Text is modelled as a sequence of one-glyph strings, so <<"I","D">> is  *)
(* the Python str "ID"; a box-drawing glyph is the token "uXXXX" of its     *)
(* code point.  A Python value whose type matters (a JSON value, the bits  *)
(* of a Field) is a record [t |-> type, v |-> value].                      *)
(***************************************************************************)
EXTENDS Integers, Sequences, FiniteSets, TLC

VARIABLES
    pc,             \* control position of the running call
    fields,         \* render_diagram: the fields argument
    bits_per_row,   \* render_diagram: the bits_per_row argument
    show_ruler,     \* render_diagram: the show_ruler argument
    style,          \* render_diagram: the style argument
    lines,          \* render_diagram: the output lines built so far
    rows,           \* render_diagram: the closed rows
    current_row,    \* render_diagram: the row in progress
    current_bit,    \* render_diagram: bit offset in the row in progress
    fi,             \* render_diagram: index (from 1) of the field of the for loop
    bits_remaining, \* render_diagram: bits of the field still to place
    is_first_part,  \* render_diagram: no segment of the field placed yet
    ri,             \* render_diagram: index (from 1) of the row being drawn
    arg,            \* the argument of the entry point that was called
    files,          \* the file system: what each path holds
    ret,            \* what the entry point returned or raised
    stdout,         \* what main printed on standard output
    stderr          \* what main printed on standard error

vars == <<pc, fields, bits_per_row, show_ruler, style, lines, rows, current_row,
          current_bit, fi, bits_remaining, is_first_part, ri,
          arg, files, ret, stdout, stderr>>

\* the state outside render_diagram
envVars == <<arg, files, ret, stdout, stderr>>

-----------------------------------------------------------------------------
(* Bounds of the model *)

MaxFields == 3

MaxWidth == 5

MaxBitsPerRow == 3

\* rows the packer may close before the model stops following it
MaxRows == 40

-----------------------------------------------------------------------------
(* Python values *)

IntV(n) == [t |-> "int", v |-> n]

StrV(s) == [t |-> "str", v |-> s]

BoolV(b) == [t |-> "bool", v |-> b]

NoneV == [t |-> "none", v |-> 0]

\* isinstance(x, int): a bool is an int
IsInt(x) == x.t \in {"int", "bool"}

\* the number an int or a bool counts as
AsInt(x) == IF x.t = "bool" THEN (IF x.v THEN 1 ELSE 0) ELSE x.v

\* Field.__init__
Field(name, bits) == [name |-> name, bits |-> bits]

\* Field.is_variable: self.bits == "*"
is_variable(field) == field.bits.t = "str" /\ field.bits.v = <<"*">>

\* class FieldSegment
FieldSegment(name, width, isvar, is_continuation, continues_next) ==
    [name |-> name, width |-> width, is_variable |-> isvar,
     is_continuation |-> is_continuation, continues_next |-> continues_next]

-----------------------------------------------------------------------------
(* render_diagram: the row packer, one action per step of its loops *)

\* mutant of ForVariable: the variable segment joins the row in progress
ForVariable_Inline ==
    /\ pc = "for"
    /\ fi <= Len(fields)
    /\ is_variable(fields[fi])
    /\ rows' = Append(rows, Append(current_row,
                 FieldSegment(fields[fi].name, bits_per_row, TRUE, FALSE, FALSE)))
    /\ current_row' = <<>>
    /\ current_bit' = 0
    /\ fi' = fi + 1
    /\ UNCHANGED <<pc, fields, bits_per_row, show_ruler, style, lines,
                   bits_remaining, is_first_part, ri>>
    /\ UNCHANGED envVars

\* for field in fields: the variable branch
ForVariable ==
    /\ pc = "for"
    /\ fi <= Len(fields)
    /\ is_variable(fields[fi])
    /\ rows' = (IF current_row # <<>> THEN Append(rows, current_row) ELSE rows)
                  \o <<<<FieldSegment(fields[fi].name, bits_per_row, TRUE, FALSE, FALSE)>>>>
    /\ current_row' = <<>>
    /\ current_bit' = (IF current_row # <<>> THEN 0 ELSE current_bit)
    /\ fi' = fi + 1
    /\ UNCHANGED <<pc, fields, bits_per_row, show_ruler, style, lines,
                   bits_remaining, is_first_part, ri>>
    /\ UNCHANGED envVars

\* for field in fields: the fixed-width branch, up to the while test
ForFixed ==
    /\ pc = "for"
    /\ fi <= Len(fields)
    /\ ~is_variable(fields[fi])
    /\ bits_remaining' = AsInt(fields[fi].bits)
    /\ is_first_part' = TRUE
    /\ pc' = "while"
    /\ UNCHANGED <<fields, bits_per_row, show_ruler, style, lines, rows,
                   current_row, current_bit, fi, ri>>
    /\ UNCHANGED envVars

\* mutant of space_in_row: the bits already in the row are forgotten
space_in_row_WholeRow == bits_per_row

space_in_row == bits_per_row - current_bit

\* mutant of WhileFit: the row is closed only once it is over-full
WhileFit_LateClose ==
    /\ pc = "while"
    /\ bits_remaining > 0
    /\ bits_remaining <= space_in_row
    /\ LET seg == FieldSegment(fields[fi].name, bits_remaining, FALSE,
                               ~is_first_part, FALSE)
           full == current_bit + bits_remaining > bits_per_row
       IN /\ rows' = IF full THEN Append(rows, Append(current_row, seg)) ELSE rows
          /\ current_row' = IF full THEN <<>> ELSE Append(current_row, seg)
          /\ current_bit' = IF full THEN 0 ELSE current_bit + bits_remaining
    /\ bits_remaining' = 0
    /\ UNCHANGED <<pc, fields, bits_per_row, show_ruler, style, lines, fi,
                   is_first_part, ri>>
    /\ UNCHANGED envVars

\* while bits_remaining > 0: the rest of the field fits the row
WhileFit ==
    /\ pc = "while"
    /\ bits_remaining > 0
    /\ bits_remaining <= space_in_row
    /\ LET seg == FieldSegment(fields[fi].name, bits_remaining, FALSE,
                               ~is_first_part, FALSE)
           full == current_bit + bits_remaining = bits_per_row
       IN /\ rows' = IF full THEN Append(rows, Append(current_row, seg)) ELSE rows
          /\ current_row' = IF full THEN <<>> ELSE Append(current_row, seg)
          /\ current_bit' = IF full THEN 0 ELSE current_bit + bits_remaining
    /\ bits_remaining' = 0
    /\ UNCHANGED <<pc, fields, bits_per_row, show_ruler, style, lines, fi,
                   is_first_part, ri>>
    /\ UNCHANGED envVars

\* mutant of WhileSplit: a whole row is taken off bits_remaining
WhileSplit_WholeRow ==
    /\ pc = "while"
    /\ bits_remaining > 0
    /\ bits_remaining > bits_per_row - current_bit
    /\ Len(rows) < MaxRows
    /\ LET seg == FieldSegment(fields[fi].name, bits_per_row - current_bit, FALSE,
                               ~is_first_part, TRUE)
       IN rows' = Append(rows, Append(current_row, seg))
    /\ current_row' = <<>>
    /\ current_bit' = 0
    /\ bits_remaining' = bits_remaining - bits_per_row
    /\ is_first_part' = FALSE
    /\ UNCHANGED <<pc, fields, bits_per_row, show_ruler, style, lines, fi, ri>>
    /\ UNCHANGED envVars

\* mutant of WhileSplit: is_first_part is not cleared
WhileSplit_KeepFirst ==
    /\ pc = "while"
    /\ bits_remaining > 0
    /\ bits_remaining > bits_per_row - current_bit
    /\ Len(rows) < MaxRows
    /\ LET seg == FieldSegment(fields[fi].name, bits_per_row - current_bit, FALSE,
                               ~is_first_part, TRUE)
       IN rows' = Append(rows, Append(current_row, seg))
    /\ current_row' = <<>>
    /\ current_bit' = 0
    /\ bits_remaining' = bits_remaining - (bits_per_row - current_bit)
    /\ UNCHANGED <<pc, fields, bits_per_row, show_ruler, style, lines, fi,
                   is_first_part, ri>>
    /\ UNCHANGED envVars

\* while bits_remaining > 0: the field overflows the row and is split
WhileSplit ==
    /\ pc = "while"
    /\ bits_remaining > 0
    /\ bits_remaining > space_in_row
    /\ Len(rows) < MaxRows
    /\ LET seg == FieldSegment(fields[fi].name, space_in_row, FALSE,
                               ~is_first_part, TRUE)
       IN rows' = Append(rows, Append(current_row, seg))
    /\ current_row' = <<>>
    /\ current_bit' = 0
    /\ bits_remaining' = bits_remaining - space_in_row
    /\ is_first_part' = FALSE
    /\ UNCHANGED <<pc, fields, bits_per_row, show_ruler, style, lines, fi, ri>>
    /\ UNCHANGED envVars

\* the while test fails: on to the next field
WhileExit ==
    /\ pc = "while"
    /\ ~(bits_remaining > 0)
    /\ fi' = fi + 1
    /\ pc' = "for"
    /\ UNCHANGED <<fields, bits_per_row, show_ruler, style, lines, rows,
                   current_row, current_bit, bits_remaining, is_first_part, ri>>
    /\ UNCHANGED envVars

\* the for loop ends: if current_row: rows.append(current_row)
ForExit ==
    /\ pc = "for"
    /\ fi > Len(fields)
    /\ rows' = IF current_row # <<>> THEN Append(rows, current_row) ELSE rows
    /\ pc' = "render"
    /\ ri' = 1
    /\ UNCHANGED <<fields, bits_per_row, show_ruler, style, lines, current_row,
                   current_bit, fi, bits_remaining, is_first_part>>
    /\ UNCHANGED envVars

-----------------------------------------------------------------------------
(* Text helpers: Python str operations on sequences of glyphs *)

RECURSIVE Repeat(_, _)
\* s * n
Repeat(s, n) == IF n <= 0 THEN <<>> ELSE s \o Repeat(s, n - 1)

\* s[:n]; a negative n counts from the end
Take(s, n) ==
    LET m == IF n < 0 THEN Len(s) + n ELSE n
    IN SubSeq(s, 1, IF m < 0 THEN 0 ELSE IF m < Len(s) THEN m ELSE Len(s))

RECURSIVE RStrip(_)
\* s.rstrip()
RStrip(s) ==
    IF s # <<>> /\ s[Len(s)] = " " THEN RStrip(SubSeq(s, 1, Len(s) - 1)) ELSE s

DigitGlyph == <<"0", "1", "2", "3", "4", "5", "6", "7", "8", "9">>

RECURSIVE Digits(_)
\* str(n), n >= 0
Digits(n) == IF n < 10 THEN <<DigitGlyph[n + 1]>>
             ELSE Digits(n \div 10) \o <<DigitGlyph[(n % 10) + 1]>>

\* f"{s:<w}"
LJust(s, w) == s \o Repeat(<<" ">>, w - Len(s))

\* s.center(w): CPython pads left with marg/2 + (marg & w & 1)
Center(s, w) ==
    IF Len(s) >= w THEN s
    ELSE LET marg == w - Len(s)
             left == (marg \div 2) + (IF marg % 2 = 1 /\ w % 2 = 1 THEN 1 ELSE 0)
         IN Repeat(<<" ">>, left) \o s \o Repeat(<<" ">>, marg - left)

RECURSIVE Join(_, _)
\* sep.join(ls)
Join(ls, sep) ==
    IF ls = <<>> THEN <<>>
    ELSE IF Len(ls) = 1 THEN ls[1]
    ELSE ls[1] \o sep \o Join(Tail(ls), sep)

-----------------------------------------------------------------------------
(* Box drawing character sets *)

ASCII_CHARS ==
    [h |-> "-", v |-> "|", tl |-> "+", tr |-> "+", bl |-> "+", br |-> "+",
     tj |-> "+", bj |-> "+", lj |-> "+", rj |-> "+", x |-> "+", v_var |-> ":"]

UNICODE_CHARS ==
    [h |-> "u2500", v |-> "u2502", tl |-> "u250C", tr |-> "u2510",
     bl |-> "u2514", br |-> "u2518", tj |-> "u252C", bj |-> "u2534",
     lj |-> "u251C", rj |-> "u2524", x |-> "u253C", v_var |-> "u250A"]

UNICODE_BOLD_CHARS ==
    [h |-> "u2501", v |-> "u2503", tl |-> "u250F", tr |-> "u2513",
     bl |-> "u2517", br |-> "u251B", tj |-> "u2533", bj |-> "u253B",
     lj |-> "u2523", rj |-> "u252B", x |-> "u254B", v_var |-> "u2507"]

\* styles.get(style, ASCII_CHARS)
get_box_chars(st) ==
    IF st = "unicode" THEN UNICODE_CHARS
    ELSE IF st = "bold" THEN UNICODE_BOLD_CHARS
    ELSE ASCII_CHARS

-----------------------------------------------------------------------------
(* Line drawing *)

RECURSIVE ByteLabels(_, _)
\* the loop of _generate_ruler over byte_num in range(k, n)
ByteLabels(k, n) ==
    IF k >= n THEN <<>> ELSE LJust(Digits(k), 19) \o ByteLabels(k + 1, n)

RECURSIVE BitLabels(_, _)
\* the loop of _generate_ruler over i in range(k, n)
BitLabels(k, n) ==
    IF k >= n THEN <<>> ELSE <<DigitGlyph[(k % 10) + 1], " ">> \o BitLabels(k + 1, n)

\* _generate_ruler: [byte_line.rstrip(), bit_line]
generate_ruler(bpr) ==
    LET byte_line == Take(<<" ">> \o ByteLabels(0, bpr \div 8), bpr * 2)
        bit_line == RStrip(<<" ">> \o BitLabels(0, bpr))
    IN <<RStrip(byte_line), bit_line>>

RECURSIVE FullBorder(_)
\* the loop "for seg in row: result += '-+' * seg.width"
FullBorder(row) ==
    IF row = <<>> THEN <<>>
    ELSE Repeat(<<"-", "+">>, Head(row).width) \o FullBorder(Tail(row))

RECURSIVE BitMap(_, _)
\* for seg in row: map.extend([seg.<key>] * seg.width)
BitMap(row, key) ==
    IF row = <<>> THEN <<>>
    ELSE Repeat(<<Head(row)[key]>>, Head(row).width) \o BitMap(Tail(row), key)

\* while len(map) < bits_per_row: map.append(False)
PadFalse(map, bpr) == map \o Repeat(<<FALSE>>, bpr - Len(map))

RECURSIVE RowWidth(_)
\* the sum of the widths of the segments of a row
RowWidth(row) == IF row = <<>> THEN 0 ELSE Head(row).width + RowWidth(Tail(row))

\* the set of positions where a segment of the row ends, and 0
Boundaries(row) == {0} \cup {RowWidth(SubSeq(row, 1, k)) : k \in 1..Len(row)}

\* _make_separator_v2: the junction at the start of column bit (from 0)
Junction(row, prev_row, bpr, bit) ==
    LET prev_continues_map == PadFalse(BitMap(prev_row, "continues_next"), bpr)
        curr_continuation_map == PadFalse(BitMap(row, "is_continuation"), bpr)
        all_boundaries == Boundaries(prev_row) \cup Boundaries(row)
    IN IF bit = 0 THEN "+"
       ELSE IF bit \in all_boundaries THEN "+"
       ELSE IF prev_continues_map[bit] /\ curr_continuation_map[bit + 1] THEN " "
       ELSE "+"

\* mutant of Column: only the row above is looked at
Column_PrevOnly(row, prev_row, bpr, bit) ==
    IF PadFalse(BitMap(prev_row, "continues_next"), bpr)[bit + 1] THEN " " ELSE "-"

\* _make_separator_v2: the line or space of column bit (from 0)
Column(row, prev_row, bpr, bit) ==
    LET prev_continues_map == PadFalse(BitMap(prev_row, "continues_next"), bpr)
        curr_continuation_map == PadFalse(BitMap(row, "is_continuation"), bpr)
    IN IF prev_continues_map[bit + 1] /\ curr_continuation_map[bit + 1] THEN " "
       ELSE "-"

RECURSIVE SeparatorCells(_, _, _, _)
\* _make_separator_v2: the loop over bit in range(k, bits_per_row)
SeparatorCells(row, prev_row, bpr, k) ==
    IF k >= bpr THEN <<>>
    ELSE <<Junction(row, prev_row, bpr, k), Column(row, prev_row, bpr, k)>>
         \o SeparatorCells(row, prev_row, bpr, k + 1)

\* _make_separator_v2
make_separator_v2(row, prev_row, chars, bpr) ==
    SeparatorCells(row, prev_row, bpr, 0) \o <<"+">>

\* _make_separator
make_separator(row, prev_row, chars, is_first_row, bpr) ==
    IF is_first_row THEN <<"+">> \o FullBorder(row)
    ELSE make_separator_v2(row, prev_row, chars, bpr)

\* _make_bottom_separator
make_bottom_separator(row, chars, bpr) == <<"+">> \o FullBorder(row)

\* mutant of display_name: the name goes in the first segment of the field
display_name_First(seg) ==
    LET cell_width == seg.width * 2 - 1
    IN IF seg.is_continuation THEN Repeat(<<" ">>, cell_width)
       ELSE IF Len(seg.name.v) > cell_width THEN Take(seg.name.v, cell_width)
       ELSE Center(seg.name.v, cell_width)

\* _render_field_row: the text of one segment's cell
display_name(seg) ==
    LET cell_width == seg.width * 2 - 1
    IN IF seg.continues_next THEN Repeat(<<" ">>, cell_width)
       ELSE IF Len(seg.name.v) > cell_width THEN Take(seg.name.v, cell_width)
       ELSE Center(seg.name.v, cell_width)

RECURSIVE FieldCells(_, _)
\* _render_field_row: the loop "result += display_name + border"
FieldCells(row, border) ==
    IF row = <<>> THEN <<>>
    ELSE display_name(Head(row)) \o <<border>> \o FieldCells(Tail(row), border)

\* _render_field_row
render_field_row(row, chars, has_variable) ==
    LET border == IF has_variable THEN chars.v_var ELSE chars.v
    IN <<border>> \o FieldCells(row, border)

\* _render_field_row raises when len(seg.name) is reached with a name that is no str
render_field_row_raises(row) ==
    \E k \in 1..Len(row) : ~row[k].continues_next /\ row[k].name.t # "str"

-----------------------------------------------------------------------------
(* render_diagram: entry and the drawing loop *)

\* chars = get_box_chars(style); if show_ruler: lines.extend(_generate_ruler(...))
Enter ==
    /\ pc = "enter"
    /\ lines' = IF show_ruler THEN generate_ruler(bits_per_row) ELSE <<>>
    /\ rows' = <<>>
    /\ current_row' = <<>>
    /\ current_bit' = 0
    /\ fi' = 1
    /\ pc' = "for"
    /\ UNCHANGED <<fields, bits_per_row, show_ruler, style, bits_remaining,
                   is_first_part, ri>>
    /\ UNCHANGED envVars

\* for i, row in enumerate(rows): one separator line and one content line
RenderRow ==
    /\ pc = "render"
    /\ ri <= Len(rows)
    /\ LET chars == get_box_chars(style)
           row == rows[ri]
           prev_row == IF ri > 1 THEN rows[ri - 1] ELSE <<>>
           has_variable == \E k \in 1..Len(row) : row[k].is_variable
           sep == make_separator(row, prev_row, chars, ri = 1, bits_per_row)
       IN IF render_field_row_raises(row)
          THEN /\ lines' = Append(lines, sep)
               /\ pc' = "raised"
               /\ ri' = ri
          ELSE /\ lines' = lines \o <<sep, render_field_row(row, chars, has_variable)>>
               /\ pc' = pc
               /\ ri' = ri + 1
    /\ UNCHANGED <<fields, bits_per_row, show_ruler, style, rows, current_row,
                   current_bit, fi, bits_remaining, is_first_part>>
    /\ UNCHANGED envVars

\* mutant of RenderEnd: the bottom separator is not drawn
RenderEnd_NoBottom ==
    /\ pc = "render"
    /\ ri > Len(rows)
    /\ pc' = "done"
    /\ UNCHANGED <<fields, bits_per_row, show_ruler, style, lines, rows,
                   current_row, current_bit, fi, bits_remaining, is_first_part, ri>>
    /\ UNCHANGED envVars

\* if rows: lines.append(_make_bottom_separator(rows[-1], ...)); return
RenderEnd ==
    /\ pc = "render"
    /\ ri > Len(rows)
    /\ lines' = IF rows # <<>>
                THEN Append(lines, make_bottom_separator(rows[Len(rows)],
                                        get_box_chars(style), bits_per_row))
                ELSE lines
    /\ pc' = "done"
    /\ UNCHANGED <<fields, bits_per_row, show_ruler, style, rows, current_row,
                   current_bit, fi, bits_remaining, is_first_part, ri>>
    /\ UNCHANGED envVars

\* render_diagram's return value once pc = "done"
diagram == Join(lines, <<"\n">>)

-----------------------------------------------------------------------------
(* parser.py: parse_inline *)

\* what a call gives back: a value, or an exception
Return(v) == [raised |-> FALSE, exc |-> "", value |-> v]

Raise(e) == [raised |-> TRUE, exc |-> e, value |-> <<>>]

RECURSIVE LStrip(_)
\* s.lstrip()
LStrip(s) == IF s # <<>> /\ s[1] = " " THEN LStrip(Tail(s)) ELSE s

\* s.strip()
Strip(s) == LStrip(RStrip(s))

\* c in s
Contains(s, c) == \E i \in 1..Len(s) : s[i] = c

RECURSIVE SplitFrom(_, _, _)
\* s.split(sep), cur the part being read
SplitFrom(s, sep, cur) ==
    IF s = <<>> THEN <<cur>>
    ELSE IF Head(s) = sep THEN <<cur>> \o SplitFrom(Tail(s), sep, <<>>)
    ELSE SplitFrom(Tail(s), sep, Append(cur, Head(s)))

Split(s, sep) == SplitFrom(s, sep, <<>>)

\* s.rsplit(sep, 1), for s that holds sep
RSplit1(s, sep) ==
    LET i == CHOOSE j \in 1..Len(s) :
                s[j] = sep /\ \A k \in (j + 1)..Len(s) : s[k] # sep
    IN <<SubSeq(s, 1, i - 1), SubSeq(s, i + 1, Len(s))>>

DigitValue(c) == CHOOSE d \in 0..9 : DigitGlyph[d + 1] = c

IsDigit(c) == \E d \in 1..10 : DigitGlyph[d] = c

\* int(s) succeeds: an optional sign, then digits (s is stripped; "_" between
\* digits and non-ASCII digits are not in the alphabet of the model)
IsIntLiteral(s) ==
    LET body == IF s # <<>> /\ s[1] \in {"+", "-"} THEN Tail(s) ELSE s
    IN body # <<>> /\ \A i \in 1..Len(body) : IsDigit(body[i])

RECURSIVE DigitsValue(_)
DigitsValue(d) ==
    IF d = <<>> THEN 0
    ELSE 10 * DigitsValue(SubSeq(d, 1, Len(d) - 1)) + DigitValue(d[Len(d)])

\* int(s), for s that IsIntLiteral
IntValue(s) ==
    IF s[1] = "-" THEN 0 - DigitsValue(Tail(s))
    ELSE IF s[1] = "+" THEN DigitsValue(Tail(s))
    ELSE DigitsValue(s)

RECURSIVE InlineParts(_, _)
\* parse_inline: the loop over definition.split(","), acc the fields so far
InlineParts(parts, acc) ==
    IF parts = <<>>
    THEN IF acc = <<>> THEN Raise("ValueError") ELSE Return(acc)
    ELSE LET part == Strip(Head(parts))
         IN IF part = <<>> THEN InlineParts(Tail(parts), acc)
            ELSE IF ~Contains(part, ":") THEN Raise("ValueError")
            ELSE LET name == Strip(RSplit1(part, ":")[1])
                     bits_str == Strip(RSplit1(part, ":")[2])
                 IN IF name = <<>> THEN Raise("ValueError")
                    ELSE IF bits_str = <<"*">>
                    THEN InlineParts(Tail(parts),
                                     Append(acc, Field(StrV(name), StrV(<<"*">>))))
                    ELSE IF ~IsIntLiteral(bits_str) THEN Raise("ValueError")
                    ELSE IF IntValue(bits_str) <= 0 THEN Raise("ValueError")
                    ELSE InlineParts(Tail(parts),
                                     Append(acc, Field(StrV(name),
                                                       IntV(IntValue(bits_str)))))

\* parse_inline
parse_inline(definition) == InlineParts(Split(definition, ","), <<>>)

\* a call of parse_inline from outside
ParseInline ==
    /\ pc = "parse_inline"
    /\ ret' = parse_inline(arg)
    /\ pc' = IF parse_inline(arg).raised THEN "raised" ELSE "returned"
    /\ UNCHANGED <<fields, bits_per_row, show_ruler, style, lines, rows,
                   current_row, current_bit, fi, bits_remaining, is_first_part,
                   ri, arg, files, stdout, stderr>>

-----------------------------------------------------------------------------
(* parser.py: parse_json and parse_input *)

\* JSON values as json.load gives them: a dict is its sequence of
\* <<key, value>> pairs, a list its sequence of values
DictV(pairs) == [t |-> "dict", v |-> pairs]

ListV(items) == [t |-> "list", v |-> items]

FloatV(n) == [t |-> "float", v |-> n]

\* a pathlib.Path
PathV(s) == [t |-> "path", v |-> s]

\* a str that starts with "{", given by what json.loads makes of it
JsonText(data) == [t |-> "jsontext", v |-> data]

\* text that json.load / json.loads cannot decode (JSONDecodeError)
Undecodable == [t |-> "undecodable", v |-> 0]

\* key in d
HasKey(d, key) == \E i \in 1..Len(d.v) : d.v[i][1] = key

\* d[key]
GetKey(d, key) == d.v[CHOOSE i \in 1..Len(d.v) : d.v[i][1] = key][2]

\* iterating a value: TRUE when Python can
Iterable(x) == x.t \in {"list", "str", "dict"}

\* the items "for ... in x" goes through
Items(x) ==
    IF x.t = "list" THEN x.v
    ELSE IF x.t = "str" THEN [i \in 1..Len(x.v) |-> StrV(<<x.v[i]>>)]
    ELSE [i \in 1..Len(x.v) |-> StrV(<<x.v[i][1]>>)]

RECURSIVE JsonFields(_, _)
\* parse_json: the loop over data["fields"], acc the fields so far
JsonFields(items, acc) ==
    IF items = <<>>
    THEN IF acc = <<>> THEN Raise("ValueError") ELSE Return(acc)
    ELSE LET field_data == Head(items)
         IN IF field_data.t # "dict" THEN Raise("ValueError")
            ELSE IF ~HasKey(field_data, "name") THEN Raise("ValueError")
            ELSE IF ~HasKey(field_data, "bits") THEN Raise("ValueError")
            ELSE LET name == GetKey(field_data, "name")
                     bits == GetKey(field_data, "bits")
                 IN IF ~(bits.t = "str" /\ bits.v = <<"*">>) /\ ~IsInt(bits)
                    THEN Raise("ValueError")
                    ELSE IF IsInt(bits) /\ AsInt(bits) <= 0 THEN Raise("ValueError")
                    ELSE JsonFields(Tail(items), Append(acc, Field(name, bits)))

\* parse_json, from "if not isinstance(data, dict)" on
JsonData(data) ==
    IF data.t = "undecodable" THEN Raise("ValueError")
    ELSE IF data.t # "dict" THEN Raise("ValueError")
    ELSE IF ~HasKey(data, "fields") THEN Raise("ValueError")
    ELSE IF ~Iterable(GetKey(data, "fields")) THEN Raise("TypeError")
    ELSE JsonFields(Items(GetKey(data, "fields")), <<>>)

\* parse_json; fs is the file system
parse_json(json_input, fs) ==
    IF json_input.t \in {"path", "str"}
    THEN IF json_input.v \in DOMAIN fs
         THEN JsonData(fs[json_input.v])
         ELSE Raise("FileNotFoundError")
    ELSE JsonData(json_input.v)

UpperLetters ==
    <<"A", "B", "C", "D", "E", "F", "G", "H", "I", "J", "K", "L", "M",
      "N", "O", "P", "Q", "R", "S", "T", "U", "V", "W", "X", "Y", "Z">>

LowerLetters ==
    <<"a", "b", "c", "d", "e", "f", "g", "h", "i", "j", "k", "l", "m",
      "n", "o", "p", "q", "r", "s", "t", "u", "v", "w", "x", "y", "z">>

\* s.lower()
Lower(s) ==
    [i \in 1..Len(s) |->
        IF \E j \in 1..26 : UpperLetters[j] = s[i]
        THEN LowerLetters[CHOOSE j \in 1..26 : UpperLetters[j] = s[i]]
        ELSE s[i]]

\* Path(s).suffix, for a path of one component
Suffix(s) ==
    IF ~Contains(s, ".") THEN <<>>
    ELSE LET i == CHOOSE j \in 1..Len(s) :
                     s[j] = "." /\ \A k \in (j + 1)..Len(s) : s[k] # "."
         IN IF 1 < i /\ i < Len(s) THEN SubSeq(s, i, Len(s)) ELSE <<>>

\* parse_input
parse_input(input_str, fs) ==
    IF input_str \in DOMAIN fs /\ Lower(Suffix(input_str)) = <<".", "j", "s", "o", "n">>
    THEN parse_json(PathV(input_str), fs)
    ELSE parse_inline(input_str)

\* a call of parse_json from outside
ParseJson ==
    /\ pc = "parse_json"
    /\ ret' = parse_json(arg, files)
    /\ pc' = IF parse_json(arg, files).raised THEN "raised" ELSE "returned"
    /\ UNCHANGED <<fields, bits_per_row, show_ruler, style, lines, rows,
                   current_row, current_bit, fi, bits_remaining, is_first_part,
                   ri, arg, files, stdout, stderr>>

-----------------------------------------------------------------------------
(* protocols.py *)

\* three of the entries of the table
PROTOCOLS ==
    (<<"i", "c", "m", "p", "v", "6">> :>
        [description |-> "ICMPv6",
         field_spec |->
            <<"T", "y", "p", "e", ":", "8", ",", "C", "o", "d", "e", ":", "8",
            ",", "C", "h", "e", "c", "k", "s", "u", "m", ":", "1", "6", ",", "M",
            "e", "s", "s", "a", "g", "e", " ", "B", "o", "d", "y", ":", "*">>])
    @@ (<<"t", "l", "s">> :>
        [description |-> "TLS Record",
         field_spec |->
            <<"C", "o", "n", "t", "e", "n", "t", " ", "T", "y", "p", "e", ":",
            "8", ",", "V", "e", "r", "s", "i", "o", "n", ":", "1", "6", ",", "L",
            "e", "n", "g", "t", "h", ":", "1", "6", ",", "P", "a", "y", "l", "o",
            "a", "d", ":", "*">>])
    @@ (<<"u", "d", "p">> :>
        [description |-> "User Datagram Protocol",
         field_spec |->
            <<"S", "o", "u", "r", "c", "e", " ", "P", "o", "r", "t", ":", "1",
            "6", ",", "D", "e", "s", "t", "i", "n", "a", "t", "i", "o", "n", " ",
            "P", "o", "r", "t", ":", "1", "6", ",", "L", "e", "n", "g", "t", "h",
            ":", "1", "6", ",", "C", "h", "e", "c", "k", "s", "u", "m", ":", "1",
            "6", ",", "D", "a", "t", "a", ":", "*">>])

\* get_protocol
get_protocol(name) ==
    IF Lower(name) \notin DOMAIN PROTOCOLS THEN Raise("KeyError")
    ELSE Return(PROTOCOLS[Lower(name)])

\* list_protocols, the names only and in no order
list_protocols == DOMAIN PROTOCOLS

\* is_protocol
is_protocol(name) == Lower(name) \in DOMAIN PROTOCOLS

-----------------------------------------------------------------------------
(* cli.py: main, after parser.parse_args; arg is the argparse namespace *)

IsMain == arg.t = "args"

\* if args.list: print_protocol_list(); return 0
MainList ==
    /\ pc = "main"
    /\ arg.v.list
    /\ stdout' = Append(stdout, [protocols |-> list_protocols])
    /\ ret' = Return(0)
    /\ pc' = "exit"
    /\ UNCHANGED <<fields, bits_per_row, show_ruler, style, lines, rows,
                   current_row, current_bit, fi, bits_remaining, is_first_part,
                   ri, arg, files, stderr>>

\* not args.input: None or the empty string
NoInput == IF arg.v.input.t = "none" THEN TRUE ELSE arg.v.input.v = <<>>

\* if not args.input: parser.print_help(); return 1
MainNoInput ==
    /\ pc = "main"
    /\ ~arg.v.list
    /\ NoInput
    /\ stdout' = Append(stdout, [help |-> TRUE])
    /\ ret' = Return(1)
    /\ pc' = "exit"
    /\ UNCHANGED <<fields, bits_per_row, show_ruler, style, lines, rows,
                   current_row, current_bit, fi, bits_remaining, is_first_part,
                   ri, arg, files, stderr>>

\* fields = parse_input(args.input) raises: the except clauses print and return 1
MainParseError ==
    /\ pc = "main"
    /\ ~arg.v.list
    /\ ~NoInput
    /\ parse_input(arg.v.input.v, files).raised
    /\ stderr' = Append(stderr, [error |-> parse_input(arg.v.input.v, files).exc])
    /\ ret' = Return(1)
    /\ pc' = "exit"
    /\ UNCHANGED <<fields, bits_per_row, show_ruler, style, lines, rows,
                   current_row, current_bit, fi, bits_remaining, is_first_part,
                   ri, arg, files, stdout>>

\* fields = parse_input(args.input) returns: render_diagram is called
MainRender ==
    /\ pc = "main"
    /\ ~arg.v.list
    /\ ~NoInput
    /\ ~parse_input(arg.v.input.v, files).raised
    /\ fields' = parse_input(arg.v.input.v, files).value
    /\ bits_per_row' = arg.v.bits_per_row
    /\ show_ruler' = ~arg.v.no_ruler
    /\ style' = IF arg.v.unicode THEN "unicode" ELSE arg.v.style
    /\ pc' = "enter"
    /\ UNCHANGED <<lines, rows, current_row, current_bit, fi, bits_remaining,
                   is_first_part, ri, arg, files, ret, stdout, stderr>>

\* print(diagram); return 0
MainPrint ==
    /\ pc = "done"
    /\ IsMain
    /\ stdout' = Append(stdout, diagram)
    /\ ret' = Return(0)
    /\ pc' = "exit"
    /\ UNCHANGED <<fields, bits_per_row, show_ruler, style, lines, rows,
                   current_row, current_bit, fi, bits_remaining, is_first_part,
                   ri, arg, files, stderr>>

\* render_diagram raised: except Exception prints and returns 1
MainExcept ==
    /\ pc = "raised"
    /\ IsMain
    /\ stderr' = Append(stderr, [error |-> "TypeError"])
    /\ ret' = Return(1)
    /\ pc' = "exit"
    /\ UNCHANGED <<fields, bits_per_row, show_ruler, style, lines, rows,
                   current_row, current_bit, fi, bits_remaining, is_first_part,
                   ri, arg, files, stdout>>

-----------------------------------------------------------------------------
(* Inputs of a direct call of render_diagram *)

\* the name given to the i-th field of an input list
FieldNames == <<<<"I", "D">>, <<"D", "a", "t", "a">>>>

NameAt(i) == StrV(FieldNames[((i - 1) % Len(FieldNames)) + 1])

FieldBits == {IntV(n) : n \in 1..MaxWidth} \cup {StrV(<<"*">>)}

FieldLists ==
    UNION {{[i \in 1..n |-> Field(NameAt(i), b[i])] : b \in [1..n -> FieldBits]}
           : n \in 1..MaxFields}

Styles == {"ascii", "unicode", "bold"}

Init ==
    /\ pc = "enter"
    /\ fields \in FieldLists
    /\ bits_per_row \in 1..MaxBitsPerRow
    /\ show_ruler \in BOOLEAN
    /\ style \in Styles
    /\ lines = <<>>
    /\ rows = <<>>
    /\ current_row = <<>>
    /\ current_bit = 0
    /\ fi = 0
    /\ bits_remaining = 0
    /\ is_first_part = TRUE
    /\ ri = 0
    /\ arg = NoneV
    /\ files = <<>>
    /\ ret = NoneV
    /\ stdout = <<>>
    /\ stderr = <<>>

Next ==
    \/ Enter
    \/ ForVariable
    \/ ForFixed
    \/ WhileFit
    \/ WhileSplit
    \/ WhileExit
    \/ ForExit
    \/ RenderRow
    \/ RenderEnd

Spec == Init /\ [][Next]_vars

\* The row packer alone (renderer.py 73-120): it reads neither show_ruler nor
\* style, so one value of each is followed.
InitPack == Init /\ ~show_ruler /\ style = "ascii"

NextPack ==
    \/ Enter
    \/ ForVariable
    \/ ForFixed
    \/ WhileFit
    \/ WhileSplit
    \/ WhileExit
    \/ ForExit

\* render_diagram runs in one thread: a statement that can run does run
SpecPack == InitPack /\ [][NextPack]_vars /\ WF_vars(NextPack)

-----------------------------------------------------------------------------
(* Calls of _generate_ruler *)

MaxRulerBits == 64

\* _generate_ruler(bits_per_row) is called and returns its two lines
GenerateRuler ==
    /\ pc = "ruler"
    /\ lines' = generate_ruler(bits_per_row)
    /\ pc' = "ruled"
    /\ UNCHANGED <<fields, bits_per_row, show_ruler, style, rows, current_row,
                   current_bit, fi, bits_remaining, is_first_part, ri>>
    /\ UNCHANGED envVars

InitRuler ==
    /\ pc = "ruler"
    /\ bits_per_row \in 0..MaxRulerBits
    /\ fields = <<>>
    /\ show_ruler = TRUE
    /\ style = "ascii"
    /\ lines = <<>>
    /\ rows = <<>>
    /\ current_row = <<>>
    /\ current_bit = 0
    /\ fi = 0
    /\ bits_remaining = 0
    /\ is_first_part = TRUE
    /\ ri = 0
    /\ arg = NoneV
    /\ files = <<>>
    /\ ret = NoneV
    /\ stdout = <<>>
    /\ stderr = <<>>

NextRuler == GenerateRuler

SpecRuler == InitRuler /\ [][NextRuler]_vars

-----------------------------------------------------------------------------
(* Calls of the two parsers *)

MaxInlineLen == 4

MaxJsonFields == 2

InlineAlphabet == {"A", ":", ",", " ", "*", "0", "2", "-"}

\* every definition of at most MaxInlineLen glyphs
ShortDefinitions == UNION {[1..n -> InlineAlphabet] : n \in 0..MaxInlineLen}

\* longer definitions: one or two of these tokens, joined by a comma
InlineTokens ==
    {<<"I", "D", ":", "8">>, <<"I", "D", ":", "*">>, <<"I", "D", ":", "0">>,
     <<"I", "D", ":", "-", "2">>, <<"I", "D", ":", "+", "2">>,
     <<" ", "I", " ", "D", " ", ":", " ", "1", "0", " ">>,
     <<"I", ":", "D", ":", "2">>, <<"I", "D", ":", "x">>, <<"I", "D", ":">>,
     <<":", "8">>, <<"I", "D">>, <<" ">>}

LongDefinitions ==
    InlineTokens \cup {a \o <<",">> \o b : a \in InlineTokens, b \in InlineTokens}

JsonNames == {StrV(<<"I", "D">>), StrV(<<>>), IntV(5), NoneV}

JsonBits ==
    {StrV(<<"*">>), StrV(<<"8">>), IntV(0 - 1), IntV(0), IntV(8), BoolV(TRUE),
     BoolV(FALSE), FloatV(1), NoneV}

FieldDatas ==
    {DictV(<<<<"name", n>>, <<"bits", b>>>>) : n \in JsonNames, b \in JsonBits}
    \cup {DictV(<<<<"name", n>>>>) : n \in JsonNames}
    \cup {DictV(<<<<"bits", b>>>>) : b \in JsonBits}
    \cup {DictV(<<>>), IntV(1)}

FieldsValues ==
    {ListV(l) : l \in UNION {[1..n -> FieldDatas] : n \in 0..MaxJsonFields}}
    \cup {StrV(<<"a", "b">>), StrV(<<>>), IntV(5), NoneV, DictV(<<>>),
          DictV(<<<<"a", IntV(1)>>>>)}

JsonObjects ==
    {DictV(<<<<"fields", f>>>>) : f \in FieldsValues}
    \cup {DictV(<<>>), DictV(<<<<"name", StrV(<<"I", "D">>)>>>>)}

\* what a file may hold
FileContents == JsonObjects \cup {ListV(<<>>), IntV(1), NoneV, Undecodable}

JsonPath == <<"p", ".", "j", "s", "o", "n">>

InitParse ==
    /\ \/ /\ pc = "parse_inline"
          /\ arg \in ShortDefinitions \cup LongDefinitions
          /\ files = <<>>
       \/ /\ pc = "parse_json"
          /\ arg \in {JsonText(d) : d \in JsonObjects \cup {Undecodable}}
          /\ files = <<>>
       \/ /\ pc = "parse_json"
          /\ arg \in {PathV(JsonPath), StrV(JsonPath)}
          /\ files \in {<<>>} \cup {(JsonPath :> c) : c \in FileContents}
    /\ fields = <<>>
    /\ bits_per_row = 0
    /\ show_ruler = FALSE
    /\ style = "ascii"
    /\ lines = <<>>
    /\ rows = <<>>
    /\ current_row = <<>>
    /\ current_bit = 0
    /\ fi = 0
    /\ bits_remaining = 0
    /\ is_first_part = TRUE
    /\ ri = 0
    /\ ret = NoneV
    /\ stdout = <<>>
    /\ stderr = <<>>

NextParse ==
    \/ ParseInline
    \/ ParseJson

SpecParse == InitParse /\ [][NextParse]_vars

-----------------------------------------------------------------------------
(* Runs of main *)

\* values of --bits-per-row
BitsPerRowArgs == {0 - 1, 0, 1, 2, 32}

MainInputs ==
    {NoneV, StrV(<<>>),
     StrV(<<"u", "d", "p">>), StrV(<<"T", "L", "S">>),
     StrV(<<"i", "c", "m", "p", "v", "6">>),
     StrV(<<"I", "D", ":", "2", ",", "D", "a", "t", "a", ":", "*">>),
     StrV(<<"I", "D", ":", "3">>), StrV(<<"I", "D", ":", "0">>),
     StrV(<<"D", "a", "t", "a", ":", "*">>),
     StrV(JsonPath), StrV(<<"P", ".", "J", "S", "O", "N">>)}

MainFiles ==
    {<<>>,
     JsonPath :> DictV(<<<<"fields",
         ListV(<<DictV(<<<<"name", StrV(<<"I", "D">>)>>, <<"bits", IntV(2)>>>>),
                 DictV(<<<<"name", StrV(<<>>)>>, <<"bits", BoolV(TRUE)>>>>)>>)>>>>),
     JsonPath :> DictV(<<<<"fields",
         ListV(<<DictV(<<<<"name", IntV(5)>>, <<"bits", StrV(<<"*">>)>>>>)>>)>>>>),
     JsonPath :> Undecodable,
     <<"P", ".", "J", "S", "O", "N">> :> DictV(<<<<"fields",
         ListV(<<DictV(<<<<"name", StrV(<<"I", "D">>)>>, <<"bits", IntV(3)>>>>)>>)>>>>)}

Args(input, list, bpr, no_ruler, st, unicode) ==
    [t |-> "args",
     v |-> [input |-> input, list |-> list, bits_per_row |-> bpr,
            no_ruler |-> no_ruler, style |-> st, unicode |-> unicode]]

InitMain ==
    /\ pc = "main"
    /\ arg \in {Args(i, l, b, n, s, u) :
                  i \in MainInputs, l \in BOOLEAN, b \in BitsPerRowArgs,
                  n \in BOOLEAN, s \in Styles, u \in BOOLEAN}
    /\ files \in MainFiles
    /\ fields = <<>>
    /\ bits_per_row = 0
    /\ show_ruler = FALSE
    /\ style = "ascii"
    /\ lines = <<>>
    /\ rows = <<>>
    /\ current_row = <<>>
    /\ current_bit = 0
    /\ fi = 0
    /\ bits_remaining = 0
    /\ is_first_part = TRUE
    /\ ri = 0
    /\ ret = NoneV
    /\ stdout = <<>>
    /\ stderr = <<>>

NextMain ==
    \/ MainList
    \/ MainNoInput
    \/ MainParseError
    \/ MainRender
    \/ Enter
    \/ ForVariable
    \/ ForFixed
    \/ WhileFit
    \/ WhileSplit
    \/ WhileExit
    \/ ForExit
    \/ RenderRow
    \/ RenderEnd
    \/ MainPrint
    \/ MainExcept

SpecMain == InitMain /\ [][NextMain]_vars

-----------------------------------------------------------------------------
(* Vocabulary of the properties *)

\* row packing is just over: rows is final (drawing leaves it unchanged)
Packed == pc = "render" /\ ri = 1

\* render_diagram has returned its lines
Done == pc = "done"

RulerLen == IF show_ruler THEN 2 ELSE 0

\* the lines drawn for row r (from 1): separator above, content, separator below
SepAbove(r) == lines[RulerLen + 2 * r - 1]

Content(r) == lines[RulerLen + 2 * r]

SepBelow(r) == lines[RulerLen + 2 * r + 1]

RECURSIVE FlatFrom(_, _)
\* the segments of rows rs in reading order, each with its row, its position
\* in the row and its bit offset in the row
FlatFrom(rs, base) ==
    IF rs = <<>> THEN <<>>
    ELSE [k \in 1..Len(Head(rs)) |->
            [seg |-> Head(rs)[k], row |-> base + 1, pos |-> k,
             off |-> RowWidth(SubSeq(Head(rs), 1, k - 1))]]
         \o FlatFrom(Tail(rs), base + 1)

RECURSIVE OwnFrom(_, _, _, _)
\* The field each segment of F belongs to, by counting bits only (no flag is
\* read): segment p goes to field k, of which `used` bits are already placed.
OwnFrom(F, p, k, used) ==
    IF p > Len(F) THEN <<>>
    ELSE IF k > Len(fields) THEN <<0>> \o OwnFrom(F, p + 1, k, 0)
    ELSE IF is_variable(fields[k]) THEN <<k>> \o OwnFrom(F, p + 1, k + 1, 0)
    ELSE IF used + F[p].seg.width >= fields[k].bits.v
         THEN <<k>> \o OwnFrom(F, p + 1, k + 1, 0)
         ELSE <<k>> \o OwnFrom(F, p + 1, k, used + F[p].seg.width)

\* the positions in F of the segments of field k, O the owners
SegsOf(O, k) == {p \in 1..Len(O) : O[p] = k}

RECURSIVE SumOver(_, _)
SumOver(f, S) ==
    IF S = {} THEN 0
    ELSE LET x == CHOOSE y \in S : TRUE IN f[x] + SumOver(f, S \ {x})

CeilDiv(a, b) == (a + b - 1) \div b

Min(S) == CHOOSE x \in S : \A y \in S : x <= y

Max(S) == CHOOSE x \in S : \A y \in S : x >= y

FixedIdx == {k \in 1..Len(fields) : ~is_variable(fields[k])}

VarIdx == {k \in 1..Len(fields) : is_variable(fields[k])}

TotalBits == SumOver([k \in 1..Len(fields) |-> fields[k].bits.v], FixedIdx)

IsSeparatorLine(l) == l # <<>> /\ l[1] = "+"

IsContentLine(l) ==
    l # <<>> /\ l[1] \in {get_box_chars(style).v, get_box_chars(style).v_var}

\* row r holds one variable segment and nothing else
IsVariableRow(r) == Len(rows[r]) = 1 /\ rows[r][1].is_variable

Blank(n) == [i \in 1..n |-> " "]

-----------------------------------------------------------------------------
(* C1 *)

AllFixedExact == VarIdx = {} /\ TotalBits % bits_per_row = 0

\* C1: a list of fixed-width fields whose widths sum to k * bits_per_row is
\* drawn as k content rows and k + 1 separator lines, alternating separator,
\* content, ..., separator (the ruler lines come before and are not counted).
C1_RowsAndSeparators ==
    (Done /\ AllFixedExact) =>
        LET k == TotalBits \div bits_per_row
        IN /\ Len(rows) = k
           /\ Len(lines) = RulerLen + 2 * k + 1
           /\ \A j \in 1..(2 * k + 1) :
                IF j % 2 = 1
                THEN IsSeparatorLine(lines[RulerLen + j])
                     /\ ~IsContentLine(lines[RulerLen + j])
                ELSE IsContentLine(lines[RulerLen + j])
                     /\ ~IsSeparatorLine(lines[RulerLen + j])

\* a list of two or more fixed fields filling two or more rows, with a ruler
C1_Witness ==
    /\ Done /\ AllFixedExact /\ show_ruler
    /\ Len(fields) >= 2 /\ TotalBits \div bits_per_row >= 2 /\ bits_per_row >= 2

-----------------------------------------------------------------------------
(* C2 *)

\* C2 as claimed: a fixed field wider than bits_per_row has exactly
\* ceil(w / bits_per_row) segments, whatever precedes it.
C2_CeilSegments ==
    Packed =>
        LET F == FlatFrom(rows, 0)
            O == OwnFrom(F, 1, 1, 0)
        IN \A k \in FixedIdx :
             fields[k].bits.v > bits_per_row =>
                Cardinality(SegsOf(O, k)) = CeilDiv(fields[k].bits.v, bits_per_row)

\* C2 amended: a fixed field wider than bits_per_row whose first segment
\* starts at bit offset c of its row has exactly ceil((c + w) / bits_per_row)
\* segments, on that many consecutive rows; that is ceil(w / bits_per_row)
\* when the field starts a row (c = 0).
C2_CeilSegmentsFromOffset ==
    Packed =>
        LET F == FlatFrom(rows, 0)
            O == OwnFrom(F, 1, 1, 0)
        IN \A k \in FixedIdx :
             fields[k].bits.v > bits_per_row =>
                LET S == SegsOf(O, k) IN
                /\ S # {}
                /\ LET first == Min(S)
                       c == F[first].off
                       n == CeilDiv(c + fields[k].bits.v, bits_per_row)
                   IN /\ Cardinality(S) = n
                      /\ {F[p].row : p \in S} = F[first].row .. (F[first].row + n - 1)
                      /\ (c = 0 => n = CeilDiv(fields[k].bits.v, bits_per_row))

\* a wide field that starts in the middle of a row and is cut in three or
\* more segments, and a wide field that starts a row
C2_Witness ==
    /\ Packed
    /\ LET F == FlatFrom(rows, 0)
           O == OwnFrom(F, 1, 1, 0)
       IN /\ \E k \in FixedIdx :
               /\ fields[k].bits.v > bits_per_row
               /\ SegsOf(O, k) # {} /\ F[Min(SegsOf(O, k))].off > 0
               /\ Cardinality(SegsOf(O, k)) >= 3
          /\ \E k \in FixedIdx :
               /\ fields[k].bits.v > bits_per_row
               /\ SegsOf(O, k) # {} /\ F[Min(SegsOf(O, k))].off = 0

-----------------------------------------------------------------------------
(* C3 *)

\* the segments S (positions in F) are a well-formed chain of a field of
\* `bits` bits
ChainOK(F, S, bits) ==
    /\ S # {}
    /\ LET first == Min(S)
           last == Max(S)
       IN /\ S = first..last
          /\ \A p \in S : p # last => F[p + 1].row = F[p].row + 1
          /\ \A p \in S : F[p].seg.width \in 1..bits_per_row
          /\ SumOver([p \in S |-> F[p].seg.width], S) = bits
          /\ \A p \in S :
               LET sg == F[p].seg
                   row == rows[F[p].row]
               IN /\ sg.is_continuation = (p # first)
                  /\ sg.continues_next = (p # last)
                  /\ ~sg.is_variable
                  /\ sg.continues_next =>
                       /\ F[p].pos = Len(row)
                       /\ RowWidth(row) = bits_per_row
                  /\ sg.is_continuation =>
                       /\ F[p].pos = 1
                       /\ F[p].row > 1
                       /\ LET above == rows[F[p].row - 1]
                          IN sg.name = above[Len(above)].name

\* C3: the segments of each fixed-width field form a well-formed chain: on
\* consecutive rows, widths in 1..bits_per_row summing to the field's width,
\* is_continuation on all but the first, continues_next on all but the last,
\* a continued segment ends a full row, a continuation starts its row under
\* a segment of the same name.
C3_SegmentChains ==
    Packed =>
        LET F == FlatFrom(rows, 0)
            O == OwnFrom(F, 1, 1, 0)
        IN \A k \in FixedIdx : ChainOK(F, SegsOf(O, k), fields[k].bits.v)

\* a field cut in three or more segments after another field, next to a
\* variable field
C3_Witness ==
    /\ Packed
    /\ VarIdx # {}
    /\ LET F == FlatFrom(rows, 0)
           O == OwnFrom(F, 1, 1, 0)
       IN \E k \in FixedIdx : k > 1 /\ Cardinality(SegsOf(O, k)) >= 3

-----------------------------------------------------------------------------
(* C4 *)

\* C4: a variable-length field is one segment alone on its row, of width
\* bits_per_row, flagged variable and neither continuation nor continued;
\* the separator lines above and below its row have no blank.
C4_VariableRow ==
    /\ Packed =>
         LET F == FlatFrom(rows, 0)
             O == OwnFrom(F, 1, 1, 0)
         IN \A k \in VarIdx :
              LET S == SegsOf(O, k) IN
              /\ Cardinality(S) = 1
              /\ LET p == CHOOSE q \in S : TRUE
                     sg == F[p].seg
                 IN /\ Len(rows[F[p].row]) = 1
                    /\ sg.width = bits_per_row
                    /\ sg.is_variable
                    /\ ~sg.is_continuation
                    /\ ~sg.continues_next
                    /\ sg.name = fields[k].name
    /\ Done =>
         \A r \in 1..Len(rows) :
            (\E k \in 1..Len(rows[r]) : rows[r][k].is_variable) =>
                /\ \A i \in 1..Len(SepAbove(r)) : SepAbove(r)[i] # " "
                /\ \A i \in 1..Len(SepBelow(r)) : SepBelow(r)[i] # " "
                /\ Len(SepAbove(r)) = 2 * bits_per_row + 1

\* a variable row drawn between a split field's last row and a following row
C4_Witness ==
    /\ Done
    /\ bits_per_row >= 2
    /\ \E r \in 2..(Len(rows) - 1) :
          IsVariableRow(r) /\ rows[r - 1][1].is_continuation

-----------------------------------------------------------------------------
(* C5 *)

\* C5 as claimed: a row sums to at most bits_per_row, and a row that sums to
\* less is the last row of the diagram or a dedicated variable-field row.
C5_ShortRows ==
    Packed =>
        \A r \in 1..Len(rows) :
            /\ RowWidth(rows[r]) <= bits_per_row
            /\ RowWidth(rows[r]) < bits_per_row =>
                  (r = Len(rows) \/ IsVariableRow(r))

\* C5 amended: a row sums to at most bits_per_row, and a row that sums to
\* less is the last row of the diagram, a dedicated variable-field row, or the
\* row directly above a dedicated variable-field row (the row in progress that
\* the variable field closed); every other row sums to exactly bits_per_row.
C5_ShortRowsBeforeVariable ==
    Packed =>
        \A r \in 1..Len(rows) :
            /\ RowWidth(rows[r]) <= bits_per_row
            /\ RowWidth(rows[r]) < bits_per_row =>
                  \/ r = Len(rows)
                  \/ IsVariableRow(r)
                  \/ (r < Len(rows) /\ IsVariableRow(r + 1))

\* a short row closed by a variable field, and a short last row
C5_Witness ==
    /\ Packed
    /\ Len(rows) >= 3
    /\ RowWidth(rows[1]) < bits_per_row /\ IsVariableRow(2)
    /\ RowWidth(rows[Len(rows)]) < bits_per_row

-----------------------------------------------------------------------------
(* C6 *)

\* the cell of the segment at bit offset off, of width w, in a content line
CellText(line, off, w) == SubSeq(line, 2 + 2 * off, 2 * off + 2 * w)

\* the cell shows the name: cut to the cell's width when longer, otherwise
\* with blanks on both sides that differ by at most one
ShowsName(cell, name, cw) ==
    IF Len(name) > cw THEN cell = SubSeq(name, 1, cw)
    ELSE \E l \in 0..(cw - Len(name)) :
            LET r == cw - Len(name) - l
            IN /\ l - r \in {-1, 0, 1}
               /\ cell = Blank(l) \o name \o Blank(r)

\* C6: in the content rows a segment with continues_next is a cell of
\* 2*width - 1 spaces, a segment without it shows the name centred in (or cut
\* to) 2*width - 1 glyphs, so each field shows its name in exactly one cell.
C6_NameInLastSegment ==
    Done =>
        LET F == FlatFrom(rows, 0)
            O == OwnFrom(F, 1, 1, 0)
            cell == [p \in 1..Len(F) |->
                        CellText(Content(F[p].row), F[p].off, F[p].seg.width)]
        IN /\ \A r \in 1..Len(rows) : Len(Content(r)) = 2 * RowWidth(rows[r]) + 1
           /\ \A p \in 1..Len(F) :
                LET cw == 2 * F[p].seg.width - 1
                IN /\ Len(cell[p]) = cw
                   /\ IF F[p].seg.continues_next
                      THEN cell[p] = Blank(cw)
                      ELSE ShowsName(cell[p], F[p].seg.name.v, cw)
           /\ \A k \in 1..Len(fields) :
                /\ Cardinality({p \in SegsOf(O, k) : cell[p] # Blank(Len(cell[p]))}) = 1
                /\ \A p \in SegsOf(O, k) :
                      cell[p] # Blank(Len(cell[p])) =>
                          /\ ~F[p].seg.continues_next
                          /\ ShowsName(cell[p], fields[k].name.v, Len(cell[p]))

\* a split field whose name is cut in its last cell, and a name centred with
\* an odd number of blanks
C6_Witness ==
    /\ Done
    /\ LET F == FlatFrom(rows, 0)
       IN /\ \E p \in 1..Len(F) :
               /\ F[p].seg.is_continuation /\ ~F[p].seg.continues_next
               /\ Len(F[p].seg.name.v) > 2 * F[p].seg.width - 1
          /\ \E p \in 1..Len(F) :
               /\ ~F[p].seg.continues_next
               /\ (2 * F[p].seg.width - 1 - Len(F[p].seg.name.v)) \in {1, 3}

-----------------------------------------------------------------------------
(* C7 *)

\* the glyphs of a theme that a border or separator line may hold
LineGlyphs(chars) ==
    {chars.h, chars.tl, chars.tr, chars.bl, chars.br, chars.tj, chars.bj,
     chars.lj, chars.rj, chars.x, " "}

Glyphs(line) == {line[i] : i \in 1..Len(line)}

\* C7: every line drawn uses the glyphs of the chosen theme: the top border,
\* the separators and the bottom border its horizontal-line and
\* corner/junction glyphs, the content rows its vertical (or variable-border)
\* glyph; a unicode or bold diagram holds no ASCII "+" or "-" border.
C7_ThemeGlyphs ==
    Done =>
        LET chars == get_box_chars(style)
        IN \A r \in 1..Len(rows) :
              /\ Glyphs(SepAbove(r)) \subseteq LineGlyphs(chars)
              /\ Glyphs(SepBelow(r)) \subseteq LineGlyphs(chars)
              /\ Content(r)[1] \in {chars.v, chars.v_var}
              /\ Content(r)[Len(Content(r))] \in {chars.v, chars.v_var}

-----------------------------------------------------------------------------
(* C10 *)

\* the segment of the row that covers bit column i has flag `key` set (a
\* column the row does not cover counts as unset)
CoverFlag(row, i, key) ==
    \E k \in 1..Len(row) :
        LET off == RowWidth(SubSeq(row, 1, k - 1))
        IN off <= i /\ i < off + row[k].width /\ row[k][key]

\* the positions where a segment of the row starts or ends
Edges(row) ==
    UNION {LET off == RowWidth(SubSeq(row, 1, k - 1))
           IN {off, off + row[k].width} : k \in 1..Len(row)}

\* C10: in the separator above every row but the first, column i is blank
\* iff the segment above it continues below and the segment below it is a
\* continuation, and is a horizontal line otherwise; an interior junction p
\* is blank iff p is no segment edge in either row and columns p-1 and p are
\* blank, and is the junction glyph otherwise, as are positions 0 and
\* bits_per_row.
C10_SeparatorBlanks ==
    Done =>
        \A r \in 2..Len(rows) :
            LET L == SepAbove(r)
                prev == rows[r - 1]
                cur == rows[r]
            IN /\ Len(L) = 2 * bits_per_row + 1
               /\ L[1] = "+"
               /\ L[2 * bits_per_row + 1] = "+"
               /\ \A i \in 0..(bits_per_row - 1) :
                    IF CoverFlag(prev, i, "continues_next")
                       /\ CoverFlag(cur, i, "is_continuation")
                    THEN L[2 * i + 2] = " "
                    ELSE L[2 * i + 2] = "-"
               /\ \A p \in 1..(bits_per_row - 1) :
                    IF /\ p \notin (Edges(prev) \cup Edges(cur))
                       /\ L[2 * p] = " "
                       /\ L[2 * p + 2] = " "
                    THEN L[2 * p + 1] = " "
                    ELSE L[2 * p + 1] = "+"

\* a separator with a blank junction between two blank columns, a line
\* column, and (in another separator of the same diagram) a junction drawn at
\* a field edge between two continuing columns
C10_Witness ==
    /\ Done
    /\ \E r \in 2..Len(rows) :
          LET L == SepAbove(r)
          IN /\ \E p \in 1..(bits_per_row - 1) : L[2 * p + 1] = " "
             /\ \E i \in 0..(bits_per_row - 1) : L[2 * i + 2] = "-"

-----------------------------------------------------------------------------
(* C8 *)

\* main has returned after being asked for a diagram
MainAsked == pc = "exit" /\ ~arg.v.list /\ ~NoInput

\* the input names a file that holds JSON
IsJsonFile(input_str) ==
    input_str \in DOMAIN files /\ Lower(Suffix(input_str)) = <<".", "j", "s", "o", "n">>

\* C8: main called with the name of a built-in protocol (any case) renders
\* the diagram of that protocol's field specification and returns 0; an input
\* that is no protocol name, no JSON file path and no valid inline definition
\* returns a non-zero exit code.
C8_ProtocolNameRenders ==
    MainAsked =>
        LET input_str == arg.v.input.v
        IN /\ is_protocol(input_str) =>
                /\ ret = Return(0)
                /\ fields = parse_inline(get_protocol(input_str).value.field_spec).value
                /\ stdout = <<diagram>>
           /\ (/\ ~is_protocol(input_str)
               /\ ~IsJsonFile(input_str)
               /\ parse_inline(input_str).raised) => ret.value # 0

-----------------------------------------------------------------------------
(* C9 *)

\* a field list as the input collaborator must give it
WellFormedFields(fs) ==
    /\ fs # <<>>
    /\ \A i \in 1..Len(fs) :
          /\ fs[i].name.t = "str"
          /\ fs[i].name.v # <<>>
          /\ IF fs[i].bits.t = "str" THEN fs[i].bits.v = <<"*">>
             ELSE IsInt(fs[i].bits) /\ AsInt(fs[i].bits) > 0

\* C9: parse_inline and parse_json either raise or return a non-empty list
\* whose fields each have a non-empty name and a width that is "*" or a
\* strictly positive integer.
C9_ParsersRejectBadFields ==
    pc = "returned" => WellFormedFields(ret.value)

\* C9 for parse_inline alone, which the code does satisfy
C9_InlineRejectsBadFields ==
    (pc = "returned" /\ arg \in ShortDefinitions \cup LongDefinitions) =>
        WellFormedFields(ret.value)

-----------------------------------------------------------------------------
(* C11 *)

\* the row packer is running
Packing == pc \in {"for", "while"}

\* a statement of the row packer can run
PackerStep ==
    ForVariable \/ ForFixed \/ WhileFit \/ WhileSplit \/ WhileExit \/ ForExit

\* C11: with positive widths and bits_per_row >= 1 the row packer ends: each
\* iteration of the while loop takes at least one bit off bits_remaining,
\* which never goes below 0; current_bit stays in [0, bits_per_row); the
\* packer is never stuck before its end and reaches it; and it closes at most
\* ceil(total fixed bits / bits_per_row) + 2 * (number of variable fields) rows.
C11_PackerTerminates ==
    /\ [][(pc = "while" /\ pc' = "while") =>
            (bits_remaining' >= 0 /\ bits_remaining' <= bits_remaining - 1)]_vars
    /\ [](Packing => (current_bit >= 0 /\ current_bit < bits_per_row))
    /\ [](Packing => ENABLED PackerStep)
    /\ []((pc # "enter") =>
            Len(rows) <= CeilDiv(TotalBits, bits_per_row) + 2 * Cardinality(VarIdx))
    /\ <>(pc = "render")

\* the packer has ended on a list with a variable field between fixed fields,
\* a field cut in three, and as many rows as the bound allows
C11_Witness ==
    /\ Packed
    /\ VarIdx # {} /\ Cardinality(FixedIdx) >= 2
    /\ \E k \in FixedIdx : fields[k].bits.v > 2 * bits_per_row
    /\ Len(rows) = CeilDiv(TotalBits, bits_per_row) + 2 * Cardinality(VarIdx)

-----------------------------------------------------------------------------
(* C12 *)

\* the labels a line shows: its runs of glyphs other than the space
Labels(line) == SelectSeq(Split(line, " "), LAMBDA t : t # <<>>)

\* _generate_ruler has returned for a positive multiple of 8
RuledBytes == pc = "ruled" /\ bits_per_row > 0 /\ bits_per_row % 8 = 0

\* the bit-offset line shows the digit i mod 10 of every bit i at character
\* 1 + 2 * i (counted from 0), and nothing else
BitLineOK ==
    /\ Len(lines[2]) = 2 * bits_per_row
    /\ \A i \in 0..(bits_per_row - 1) :
          /\ lines[2][2 + 2 * i] = DigitGlyph[(i % 10) + 1]
          /\ lines[2][1 + 2 * i] = " "

\* the byte-index line shows the labels 0 .. bits_per_row / 8 - 1, in order
ByteLineOK ==
    Labels(lines[1]) = [k \in 1..(bits_per_row \div 8) |-> Digits(k - 1)]

\* C12: for every bits_per_row that is a positive multiple of 8 the byte-index
\* line holds one label for each of the bits_per_row / 8 groups of eight bits
\* (0 .. bits_per_row / 8 - 1, none cut off), and the bit-offset line shows
\* the digit i mod 10 of each bit i at character 1 + 2 * i.
C12_RulerLabels == RuledBytes => (ByteLineOK /\ BitLineOK)

\* what the code does: the bit-offset line is right for every bits_per_row,
\* and the byte-index line is complete exactly up to 40 bits per row
C12_RulerUpToFiveBytes ==
    /\ pc = "ruled" => BitLineOK
    /\ RuledBytes => (ByteLineOK <=> bits_per_row <= 40)

-----------------------------------------------------------------------------
(* C13 *)

\* what the test and the body of the while loop read and write, the rows
\* already closed apart: from the same LoopState the loop does the same again
LoopState == <<fi, bits_remaining, current_bit, current_row, is_first_part>>

\* C13: for every --bits-per-row the argument parser accepts (zero and
\* negative integers too) and every input with a fixed-width field, main ends
\* and never loops for ever in row packing: no iteration of the while loop
\* brings the loop back to the LoopState it started from.
C13_MainTerminates ==
    [][(IsMain /\ pc = "while" /\ pc' = "while") => LoopState' # LoopState]_vars

\* what the code does: main ends this way whenever bits_per_row >= 1
C13_PositiveMainTerminates ==
    [][(IsMain /\ bits_per_row >= 1 /\ pc = "while" /\ pc' = "while") =>
          (bits_remaining' >= 0 /\ bits_remaining' < bits_remaining)]_vars

====
